---- MODULE Spec2Model ----
(***************************************************************************)
(* DocuRAG: the RAG pipeline (rag_pipeline.py) and the Streamlit front-end *)
(* (News_Research_Tool.py) as a state machine.                             *)
(*                                                                         *)
(* Strings are sequences of one-character strings.  A text (page_content)  *)
(* is run-length encoded: a sequence of tokens [k, n], where k = "run" is  *)
(* n ordinary characters (no separator, no whitespace) and k = "nl",       *)
(* "dot", "comma" is the single character "\n", ".", ",".                  *)
(* An optional value is <<>> (None) or <<x>>.                              *)
(***************************************************************************)
EXTENDS Integers, Sequences, FiniteSets, TLC

----------------------------------------------------------------------------
(* Program constants of split_documents *)

chunk_size == 1000

chunk_overlap == 100

----------------------------------------------------------------------------
(* Bounds of the model *)

\* pages a file parser returns at most
MaxPages == 1

\* documents handed to one split_documents call at most
MaxDocs == 2

----------------------------------------------------------------------------
(* Generic helpers *)

None == <<>>

Some(x) == <<x>>

RECURSIVE SeqsUpTo(_, _)
\* all sequences over S of length 0..n
SeqsUpTo(S, n) ==
  IF n = 0 THEN {<<>>}
  ELSE LET shorter == SeqsUpTo(S, n - 1)
       IN  shorter \cup {Append(s, x) : s \in {t \in shorter : Len(t) = n - 1}, x \in S}

RECURSIVE Flatten(_)
\* list.extend over a sequence of sequences
Flatten(ss) == IF ss = <<>> THEN <<>> ELSE Head(ss) \o Flatten(Tail(ss))

Range(s) == {s[i] : i \in 1..Len(s)}

\* str.endswith
EndsWith(s, suffix) ==
  /\ Len(s) >= Len(suffix)
  /\ SubSeq(s, Len(s) - Len(suffix) + 1, Len(s)) = suffix

----------------------------------------------------------------------------
(* Texts *)

Run(n) == [k |-> "run", n |-> n]

NL == [k |-> "nl", n |-> 1]

DOT == [k |-> "dot", n |-> 1]

COMMA == [k |-> "comma", n |-> 1]

RECURSIVE TextLen(_)
\* len(text)
TextLen(t) == IF t = <<>> THEN 0 ELSE Head(t).n + TextLen(Tail(t))

\* the splitter's separators, in the order they are tried
separators == << <<NL, NL>>, <<NL>>, <<DOT>>, <<COMMA>> >>

\* index of the first occurrence of sep in t from position i on, 0 if none
RECURSIVE FindFrom(_, _, _)
FindFrom(t, sep, i) ==
  IF i + Len(sep) - 1 > Len(t) THEN 0
  ELSE IF SubSeq(t, i, i + Len(sep) - 1) = sep THEN i
  ELSE FindFrom(t, sep, i + 1)

\* re.search(sep, text)
Occurs(t, sep) == FindFrom(t, sep, 1) # 0

RECURSIVE RegexPieces(_, _)
\* re.split("(sep)", text) with each separator glued to the front of the
\* piece that follows it; the first piece comes alone
RegexPieces(t, sep) ==
  LET i == FindFrom(t, sep, 1)
  IN  IF i = 0 THEN <<t>>
      ELSE LET rest == RegexPieces(SubSeq(t, i + Len(sep), Len(t)), sep)
           IN  <<SubSeq(t, 1, i - 1)>> \o <<sep \o Head(rest)>> \o Tail(rest)

\* _split_text_with_regex(text, sep, keep_separator=True): empty pieces dropped
SplitTextWithRegex(t, sep) == SelectSeq(RegexPieces(t, sep), LAMBDA p : p # <<>>)

RECURSIVE Strip(_)
\* str.strip(): "\n" is the only whitespace a text holds
Strip(t) ==
  IF t = <<>> THEN <<>>
  ELSE IF Head(t).k = "nl" THEN Strip(Tail(t))
  ELSE IF t[Len(t)].k = "nl" THEN Strip(SubSeq(t, 1, Len(t) - 1))
  ELSE t

\* _join_docs(docs, ""): None for a text that strips to nothing
JoinDocs(pieces) ==
  LET text == Strip(Flatten(pieces))
  IN  IF text = <<>> THEN None ELSE Some(text)

RECURSIVE PopFront(_, _, _)
\* the while loop of _merge_splits: drop pieces from the front of current_doc
\* while more than the overlap is kept or the next piece still does not fit
PopFront(cur, total, len) ==
  IF total > chunk_overlap \/ (total + len > chunk_size /\ total > 0)
  THEN PopFront(Tail(cur), total - TextLen(Head(cur)), len)
  ELSE [cur |-> cur, total |-> total]

RECURSIVE MergeLoop(_, _, _, _)
MergeLoop(splits, out, cur, total) ==
  IF splits = <<>> THEN out \o JoinDocs(cur)
  ELSE LET d == Head(splits)
           len == TextLen(d)
       IN  IF total + len > chunk_size /\ Len(cur) > 0
           THEN LET kept == PopFront(cur, total, len)
                IN  MergeLoop(Tail(splits), out \o JoinDocs(cur),
                              Append(kept.cur, d), kept.total + len)
           ELSE MergeLoop(Tail(splits), out, Append(cur, d), total + len)

\* _merge_splits(splits, ""): pack small pieces into chunks of at most
\* chunk_size, carrying chunk_overlap over
MergeSplits(splits) == MergeLoop(splits, <<>>, <<>>, 0)

RECURSIVE SplitText(_, _)
RECURSIVE SplitLoop(_, _, _, _)

\* index of the first separator of seps that occurs in t, 0 if none does
FirstMatch(t, seps) ==
  LET hits == {i \in 1..Len(seps) : Occurs(t, seps[i])}
  IN  IF hits = {} THEN 0 ELSE CHOOSE i \in hits : \A j \in hits : i <= j

\* flush of _good_splits
Flush(good) == IF good = <<>> THEN <<>> ELSE MergeSplits(good)

\* the for loop of _split_text: pieces shorter than chunk_size are merged,
\* a longer piece is split again with the separators that are left, and is
\* kept whole when none is left
SplitLoop(splits, new_separators, good, final) ==
  IF splits = <<>> THEN final \o Flush(good)
  ELSE LET s == Head(splits)
       IN  IF TextLen(s) < chunk_size
           THEN SplitLoop(Tail(splits), new_separators, Append(good, s), final)
           ELSE SplitLoop(Tail(splits), new_separators, <<>>,
                          final \o Flush(good)
                                \o (IF new_separators = <<>> THEN <<s>>
                                    ELSE SplitText(s, new_separators)))

\* RecursiveCharacterTextSplitter._split_text(text, separators)
SplitText(t, seps) ==
  LET i == FirstMatch(t, seps)
      separator == IF i = 0 THEN seps[Len(seps)] ELSE seps[i]
      new_separators == IF i = 0 THEN <<>> ELSE SubSeq(seps, i + 1, Len(seps))
  IN  SplitLoop(SplitTextWithRegex(t, separator), new_separators, <<>>, <<>>)

----------------------------------------------------------------------------
(* Documents, files, errors *)

\* langchain Document: page_content and metadata["source"]
Document(source, page_content) == [source |-> source, page_content |-> page_content]

pdf_name == <<"a", ".", "p", "d", "f">>

txt_name == <<"b", ".", "t", "x", "t">>

docx_name == <<"c", ".", "d", "o", "c", "x">>

csv_name == <<"d", ".", "c", "s", "v">>

upper_name == <<"e", ".", "P", "D", "F">>

FileNames == {pdf_name, txt_name, docx_name, csv_name, upper_name}

the_url == <<"h", "t", "t", "p", ":", "/", "/", "x">>

\* a URL argument: "" or a URL
Urls == {<<>>, the_url}

short_text == <<Run(300)>>

blank_text == <<NL>>

two_sentences == <<Run(600), DOT, Run(600)>>

two_paragraphs == <<Run(500), NL, NL, Run(700), COMMA, Run(400)>>

unbroken_text == <<Run(chunk_size + 1)>>

\* page contents a loader may hand back
LoadedTexts == {<<>>, short_text}

\* page contents given to the splitter
SplitTexts == {<<>>, blank_text, short_text, two_sentences, two_paragraphs, unbroken_text}

\* os.path.join("temp", uploaded_file.name)
TempPath(name) == <<"t", "e", "m", "p", "/">> \o name

Err(type, msg) == [type |-> type, msg |-> msg]

UnsupportedFormat == Err("ValueError", "Unsupported file format")

NotLoaded == Err("ValueError", "Vectorstore not loaded. Call load_index() first.")

\* failures of the collaborators
ParserError == Err("Exception", "parser failed")

EmbeddingError == Err("Exception", "embedding failed")

SaveError == Err("OSError", "save_local failed")

IndexNotFound == Err("RuntimeError", "could not open index: No such file or directory")

DeserializeError == Err("Exception", "load_local failed")

LLMError == Err("Exception", "model provider failed")

\* what a loader's load() does: raises, or returns one Document per text
LoaderOutcomes(n) == [raised : BOOLEAN, texts : SeqsUpTo(LoadedTexts, n)]

\* UnstructuredURLLoader(urls=[url]).load(): at most one Document per URL; a
\* fetch or parse failure is logged and skipped (continue_on_failure), so the
\* call returns fewer Documents instead of raising
UrlOutcomes == {o \in LoaderOutcomes(Len(<<the_url>>)) : ~o.raised}

\* a file loader's load(): one Document per page
FileOutcomes == LoaderOutcomes(MaxPages)

\* an uploaded_file argument: None or a file, known here by its name
Uploads == {None} \cup {Some(n) : n \in FileNames}

\* no loader runs: the outcome given to a call that does not use one
NotRun == [raised |-> FALSE, texts |-> <<>>]

\* the outcomes of the URL loader that a call with this url can meet
UrlOutcomesFor(url) == IF url = <<>> THEN {NotRun} ELSE UrlOutcomes

\* the outcomes of the file loader that a call with this file can meet
FileOutcomesFor(uploaded_file) ==
  IF uploaded_file = None THEN {NotRun} ELSE FileOutcomes

----------------------------------------------------------------------------
(* RAGPipeline: each method as a function of the instance's state, its     *)
(* arguments and what its collaborators do.  A result is                   *)
(* [raised, value] plus the state the call leaves behind.                  *)

\* the loader class chosen for a file name, None for an unsupported one
ChooseLoader(name) ==
  IF EndsWith(name, <<".", "p", "d", "f">>) THEN Some("PyPDFLoader")
  ELSE IF EndsWith(name, <<".", "t", "x", "t">>) THEN Some("TextLoader")
  ELSE IF EndsWith(name, <<".", "d", "o", "c", "x">>) THEN Some("UnstructuredWordDocumentLoader")
  ELSE None

\* loader.load(): Documents whose source is what the loader was given
LoaderLoad(origin, outcome) ==
  [i \in 1..Len(outcome.texts) |-> Document(origin, outcome.texts[i])]

\* a faulty variant of TagSource: the loader-assigned source is kept
TagSourceKept(doc, name) == doc

\* doc.metadata["source"] = uploaded_file.name
TagSource(doc, name) == [doc EXCEPT !.source = name]

\* the "From File" branch of load_documents
load_documents_file(name, outcome, files) ==
  LET path == TempPath(name)
      \* open(path, "wb"): the temporary file exists from here on
      written == files \cup {path}
  IN  IF ChooseLoader(name) = None
      THEN [raised |-> Some(UnsupportedFormat), value |-> <<>>, files |-> written]
      ELSE IF outcome.raised
      THEN [raised |-> Some(ParserError), value |-> <<>>, files |-> written]
      ELSE LET file_docs == LoaderLoad(path, outcome)
           IN  [raised |-> None,
                value |-> [i \in 1..Len(file_docs) |-> TagSource(file_docs[i], name)],
                \* os.remove(path)
                files |-> written \ {path}]

\* RAGPipeline.load_documents(url, uploaded_file)
load_documents(url, uploaded_file, url_outcome, file_outcome, files) ==
  LET url_docs == IF url # <<>> THEN LoaderLoad(url, url_outcome) ELSE <<>>
  IN  IF uploaded_file = None
      THEN [raised |-> None, value |-> url_docs, files |-> files]
      ELSE LET r == load_documents_file(uploaded_file[1], file_outcome, files)
           IN  IF r.raised # None THEN r
               ELSE [r EXCEPT !.value = url_docs \o r.value]

RECURSIVE split_documents(_)
\* RAGPipeline.split_documents(docs): the chunks of each document in turn,
\* each with its document's metadata
split_documents(docs) ==
  IF docs = <<>> THEN <<>>
  ELSE LET d == Head(docs)
           texts == SplitText(d.page_content, separators)
       IN  [i \in 1..Len(texts) |-> Document(d.source, texts[i])]
           \o split_documents(Tail(docs))

\* a faulty variant of index_documents: the new chunks are added to the index on
\* disk instead of replacing it
index_documents_incremental(vectorstore_, store_, split_docs, embed_ok, save_ok) ==
  IF split_docs = <<>> \/ ~embed_ok
  THEN [raised |-> Some(EmbeddingError), built |-> FALSE,
        vectorstore |-> vectorstore_, store |-> store_]
  ELSE IF ~save_ok
  THEN [raised |-> Some(SaveError), built |-> TRUE,
        vectorstore |-> Some(split_docs), store |-> store_]
  ELSE [raised |-> None, built |-> TRUE, vectorstore |-> Some(split_docs),
        store |-> IF store_ = None THEN Some(split_docs)
                  ELSE Some(store_[1] \o split_docs)]

\* RAGPipeline.index_documents(split_docs).  FAISS.from_documents raises for
\* an empty list or when the embedding provider fails; self.vectorstore is
\* assigned before save_local runs, and save_local replaces what is stored
\* at vectorstore_path.  built: the assignment of line 102 was reached
index_documents(vectorstore_, store_, split_docs, embed_ok, save_ok) ==
  IF split_docs = <<>> \/ ~embed_ok
  THEN [raised |-> Some(EmbeddingError), built |-> FALSE,
        vectorstore |-> vectorstore_, store |-> store_]
  ELSE IF ~save_ok
  THEN [raised |-> Some(SaveError), built |-> TRUE,
        vectorstore |-> Some(split_docs), store |-> store_]
  ELSE [raised |-> None, built |-> TRUE,
        vectorstore |-> Some(split_docs), store |-> Some(split_docs)]

\* a faulty variant of load_index: a load with nothing stored at the path creates
\* the path and hands back an empty index
load_index_partial(vectorstore_, store_, load_ok) ==
  IF store_ = None
  THEN [raised |-> None, vectorstore |-> Some(<<>>), store |-> Some(<<>>)]
  ELSE IF ~load_ok
  THEN [raised |-> Some(DeserializeError), vectorstore |-> vectorstore_, store |-> store_]
  ELSE [raised |-> None, vectorstore |-> store_, store |-> store_]

\* a faulty variant of load_index: a failed load resets the in-memory index
load_index_resetting(vectorstore_, store_, load_ok) ==
  IF store_ = None
  THEN [raised |-> Some(IndexNotFound), vectorstore |-> None, store |-> store_]
  ELSE IF ~load_ok
  THEN [raised |-> Some(DeserializeError), vectorstore |-> None, store |-> store_]
  ELSE [raised |-> None, vectorstore |-> store_, store |-> store_]

\* RAGPipeline.load_index().  FAISS.load_local raises before the assignment
\* to self.vectorstore when nothing is stored at vectorstore_path or when
\* what is stored cannot be deserialized
load_index(vectorstore_, store_, load_ok) ==
  IF store_ = None
  THEN [raised |-> Some(IndexNotFound), vectorstore |-> vectorstore_, store |-> store_]
  ELSE IF ~load_ok
  THEN [raised |-> Some(DeserializeError), vectorstore |-> vectorstore_, store |-> store_]
  ELSE [raised |-> None, vectorstore |-> store_, store |-> store_]

\* a faulty variant of query: the precondition check is missing
query_unchecked(vectorstore_, cited, llm_ok, answer) ==
  IF vectorstore_ # None /\ ~llm_ok
  THEN [raised |-> Some(LLMError), value |-> None, retrieved |-> TRUE]
  ELSE [raised |-> None,
        value |-> Some([answer |-> answer, sources |-> cited]),
        retrieved |-> TRUE]

\* RAGPipeline.query(user_query).  cited: the sources of the retrieved chunks
\* the chain attributes the answer to; retrieved: the call got past its
\* precondition check and ran the chain
query(vectorstore_, cited, llm_ok, answer) ==
  IF vectorstore_ = None
  THEN [raised |-> Some(NotLoaded), value |-> None, retrieved |-> FALSE]
  ELSE IF ~llm_ok
  THEN [raised |-> Some(LLMError), value |-> None, retrieved |-> TRUE]
  ELSE [raised |-> None,
        value |-> Some([answer |-> answer, sources |-> cited]),
        retrieved |-> TRUE]

\* the sources the chain can cite from an index: those of its chunks
Sources(index) == IF index = None THEN {} ELSE {d.source : d \in Range(index[1])}

----------------------------------------------------------------------------
(* State *)

VARIABLES
  vectorstore,  \* self.vectorstore of the pipeline instance: None or the chunks indexed
  store,        \* what is stored at vectorstore_path: None or the chunks of the saved index
  files,        \* the paths that exist in the temp directory
  ret,          \* the last pipeline call made directly: its arguments and outcome
  hist,         \* what has happened so far: on the instance (load_called, loaded,
                \* index_called, built, index_ok, origin of the in-memory index) and at
                \* vectorstore_path (indexed: the chunks of the last successful
                \* index_documents; replaced: one such call replaced another's)
  ui            \* the front-end's last script run: calls made, messages shown

vars == <<vectorstore, store, files, ret, hist, ui>>

NoCall ==
  [op |-> "none", url |-> <<>>, file |-> None, arg |-> <<>>,
   raised |-> None, value |-> None, retrieved |-> FALSE]

NoRun ==
  [action |-> "none", question |-> <<>>, calls |-> <<>>, messages |-> <<>>,
   propagated |-> None]

\* RAGPipeline.__init__ with `stored` at vectorstore_path: no index in memory
InitWith(stored) ==
  /\ vectorstore = None
  /\ store = stored
  /\ files = {}
  /\ ret = NoCall
  /\ hist = [load_called |-> FALSE, loaded |-> FALSE, index_called |-> FALSE,
             built |-> FALSE, index_ok |-> FALSE, indexed |-> stored,
             replaced |-> FALSE,
             origin |-> "none"]
  /\ ui = NoRun

\* a new pipeline where nothing was ever processed
Init == InitWith(None)

----------------------------------------------------------------------------
(* Direct calls of the pipeline's methods on one instance *)

LoadDocuments(url, uploaded_file, url_outcome, file_outcome) ==
  LET r == load_documents(url, uploaded_file, url_outcome, file_outcome, files)
  IN  /\ files' = r.files
      /\ ret' = [NoCall EXCEPT !.op = "load_documents", !.url = url,
                               !.file = uploaded_file,
                               !.arg = <<url_outcome, file_outcome>>,
                               !.raised = r.raised,
                               !.value = IF r.raised = None THEN Some(r.value) ELSE None]
      /\ UNCHANGED <<vectorstore, store, hist, ui>>

SplitDocuments(docs) ==
  /\ ret' = [NoCall EXCEPT !.op = "split_documents", !.arg = docs,
                           !.value = Some(split_documents(docs))]
  /\ UNCHANGED <<vectorstore, store, files, hist, ui>>

IndexDocuments(split_docs, embed_ok, save_ok) ==
  LET r == index_documents(vectorstore, store, split_docs, embed_ok, save_ok)
  IN  /\ vectorstore' = r.vectorstore
      /\ store' = r.store
      /\ ret' = [NoCall EXCEPT !.op = "index_documents", !.arg = split_docs,
                               !.raised = r.raised]
      /\ hist' = [hist EXCEPT !.index_called = TRUE,
                              !.built = @ \/ r.built,
                              !.index_ok = @ \/ r.raised = None,
                              !.indexed = IF r.raised = None THEN Some(split_docs) ELSE @,
                              !.replaced = @ \/ (r.raised = None /\ hist.indexed # None
                                                 /\ hist.indexed # Some(split_docs)),
                              !.origin = IF r.built THEN "built" ELSE @]
      /\ UNCHANGED <<files, ui>>

LoadIndex(load_ok) ==
  LET r == load_index(vectorstore, store, load_ok)
  IN  /\ vectorstore' = r.vectorstore
      /\ store' = r.store
      /\ ret' = [NoCall EXCEPT !.op = "load_index", !.raised = r.raised,
                               !.value = IF r.raised = None THEN r.vectorstore ELSE None]
      /\ hist' = [hist EXCEPT !.load_called = TRUE,
                              !.loaded = @ \/ r.raised = None,
                              !.origin = IF r.raised = None THEN "loaded" ELSE @]
      /\ UNCHANGED <<files, ui>>

Query(cited, llm_ok, answer) ==
  LET r == query(vectorstore, cited, llm_ok, answer)
  IN  /\ ret' = [NoCall EXCEPT !.op = "query", !.raised = r.raised,
                               !.value = r.value, !.retrieved = r.retrieved]
      /\ UNCHANGED <<vectorstore, store, files, hist, ui>>

\* the answers the chain may give: empty, blank or a text
Answers == {<<>>, <<" ">>, <<"P", "a", "r", "i", "s">>}

----------------------------------------------------------------------------
(* SpecLoad: load_documents under every input and loader outcome *)

CallLoadDocuments ==
  \E url \in Urls, uploaded_file \in Uploads :
    \E url_outcome \in UrlOutcomesFor(url),
       file_outcome \in FileOutcomesFor(uploaded_file) :
      LoadDocuments(url, uploaded_file, url_outcome, file_outcome)

NextLoad == CallLoadDocuments

SpecLoad == Init /\ [][NextLoad]_vars

----------------------------------------------------------------------------
(* SpecSplit: split_documents under every list of up to MaxDocs documents *)

SplitDocs == {Document(src, t) : src \in {the_url, pdf_name}, t \in SplitTexts}

CallSplitDocuments ==
  \E docs \in SeqsUpTo(SplitDocs, MaxDocs) : SplitDocuments(docs)

NextSplit == CallSplitDocuments

SpecSplit == Init /\ [][NextSplit]_vars

----------------------------------------------------------------------------
(* Spec: one pipeline instance, its methods called in any order *)

url_doc == Document(the_url, short_text)

pdf_doc == Document(pdf_name, two_sentences)

\* the document lists a session works on
SessionDocs == {<<>>, <<url_doc>>, <<pdf_doc>>, <<url_doc, pdf_doc>>}

SessionOutcomes == {[raised |-> TRUE, texts |-> <<>>],
                    [raised |-> FALSE, texts |-> <<short_text>>]}

SessionUrlOutcomes == {NotRun, [raised |-> FALSE, texts |-> <<short_text>>]}

SessionLoad ==
  \E url \in Urls, uploaded_file \in {None, Some(pdf_name), Some(csv_name)},
     url_outcome \in SessionUrlOutcomes, file_outcome \in SessionOutcomes :
    LoadDocuments(url, uploaded_file, url_outcome, file_outcome)

SessionSplit == \E docs \in SessionDocs : SplitDocuments(docs)

SessionIndex ==
  \E docs \in SessionDocs, embed_ok \in BOOLEAN, save_ok \in BOOLEAN :
    IndexDocuments(split_documents(docs), embed_ok, save_ok)

SessionLoadIndex == \E load_ok \in BOOLEAN : LoadIndex(load_ok)

SessionQuery ==
  \E cited \in SUBSET Sources(vectorstore), llm_ok \in BOOLEAN, answer \in Answers :
    Query(cited, llm_ok, answer)

Next ==
  \/ SessionLoad
  \/ SessionSplit
  \/ SessionIndex
  \/ SessionLoadIndex
  \/ SessionQuery

\* what an earlier pipeline instance may have left at vectorstore_path
StoredBefore == {None} \cup {Some(split_documents(docs)) : docs \in SessionDocs \ {<<>>}}

\* a new pipeline, with or without an index stored by an earlier instance
InitSession == \E stored \in StoredBefore : InitWith(stored)

Spec == InitSession /\ [][Next]_vars

----------------------------------------------------------------------------
(* The front-end: one script run per user interaction.  The script builds  *)
(* a new RAGPipeline on every run (line 39), so each run starts with no    *)
(* index in memory; what is stored at vectorstore_path and in the temp     *)
(* directory outlives the run.                                             *)

\* str.lower() on the letters file names are written with
Lower(str) ==
  [i \in DOMAIN str |->
     CASE str[i] = "P" -> "p"
       [] str[i] = "D" -> "d"
       [] str[i] = "F" -> "f"
       [] OTHER -> str[i]]

\* st.file_uploader(type=["pdf", "txt", "docx"]): the extension is compared
\* without regard to case
UploaderAccepts(name) == ChooseLoader(Lower(name)) # None

AppUploads == {None} \cup {Some(n) : n \in {m \in FileNames : UploaderAccepts(m)}}

RECURSIVE StripStr(_)
\* str.strip() on a question
StripStr(str) ==
  IF str = <<>> THEN <<>>
  ELSE IF Head(str) = " " THEN StripStr(Tail(str))
  ELSE IF str[Len(str)] = " " THEN StripStr(SubSeq(str, 1, Len(str) - 1))
  ELSE str

Questions == {<<>>, <<" ">>, <<"q", "?">>}

\* one pipeline call made by the script: its name, what it raised, and
\* whether the list it returned was empty
Call(op, raised, empty) == [op |-> op, raised |-> raised, empty |-> empty]

\* one st.* call: cause is str(e) for the messages that carry one
Msg(kind, text, cause) == [kind |-> kind, text |-> text, cause |-> cause]

no_documents_text == "Failed to fetch or parse content from the given URL or file."

no_chunks_text == "No text could be extracted from the URL or file."

no_index_text == "No processed data found. Please process URLs first."

\* a faulty variant of Falsy: an empty list is not noticed
FalsyNever(list) == FALSE

\* "not docs", "not split_docs"
Falsy(list) == list = <<>>

\* a faulty variant of Catches: only ValueError is handled
CatchesValueError(err) == err.type = "ValueError"

\* "except Exception": every failure of a pipeline call is an Exception
Catches(err) == err.type \in {"ValueError", "Exception", "OSError", "RuntimeError"}

\* a faulty variant of PathExists: the check for a stored index is missing
PathExistsAlways(store_) == TRUE

\* os.path.exists(pipeline.vectorstore_path)
PathExists(store_) == store_ # None

\* the except clause of an action: the message shown for err, or the
\* exception going on past the action
Handled(text, err, calls, messages, vectorstore_, store_, files_) ==
  [calls |-> calls,
   messages |-> IF Catches(err) THEN Append(messages, Msg("error", text, Some(err.msg)))
                ELSE messages,
   propagated |-> IF Catches(err) THEN None ELSE Some(err),
   vectorstore |-> vectorstore_, store |-> store_, files |-> files_]

Finished(calls, messages, vectorstore_, store_, files_) ==
  [calls |-> calls, messages |-> messages, propagated |-> None,
   vectorstore |-> vectorstore_, store |-> store_, files |-> files_]

\* "if process_clicked:" on a new pipeline
process_clicked(url, uploaded_file, url_outcome, file_outcome, embed_ok, save_ok, store_, files_) ==
  IF url = <<>> /\ uploaded_file = None
  THEN Finished(<<>>, <<Msg("warning", "Please provide either a URL or a file.", None)>>,
                None, store_, files_)
  ELSE
    LET m1 == <<Msg("info", "Loading documents...", None)>>
        r1 == load_documents(url, uploaded_file, url_outcome, file_outcome, files_)
    IN
    IF r1.raised # None
    THEN Handled("Error fetching or processing", r1.raised[1],
                 <<Call("load_documents", r1.raised, FALSE)>>, m1, None, store_, r1.files)
    ELSE
      LET docs == r1.value
          c1 == <<Call("load_documents", None, docs = <<>>)>>
      IN
      IF Falsy(docs)
      THEN Finished(c1, Append(m1, Msg("error", no_documents_text, None)),
                    None, store_, r1.files)
      ELSE
        LET m2 == Append(m1, Msg("info", "Splitting text into chunks...", None))
            split_docs == split_documents(docs)
            c2 == Append(c1, Call("split_documents", None, split_docs = <<>>))
        IN
        IF Falsy(split_docs)
        THEN Finished(c2, Append(m2, Msg("error", no_chunks_text, None)),
                      None, store_, r1.files)
        ELSE
          LET m3 == Append(m2, Msg("info", "Creating embeddings...", None))
              r3 == index_documents(None, store_, split_docs, embed_ok, save_ok)
              c3 == Append(c2, Call("index_documents", r3.raised, FALSE))
          IN
          IF r3.raised # None
          THEN Handled("Error fetching or processing", r3.raised[1], c3, m3,
                       r3.vectorstore, r3.store, r1.files)
          ELSE Finished(c3, Append(m3, Msg("success", "Processing complete!", None)),
                        r3.vectorstore, r3.store, r1.files)

\* "if send:" on a new pipeline
send_clicked(question, load_ok, cited, llm_ok, answer, store_, files_) ==
  IF StripStr(question) = <<>>
  THEN Finished(<<>>, <<Msg("warning", "Please enter a valid question before sending.", None)>>,
                None, store_, files_)
  ELSE IF ~PathExists(store_)
  THEN Finished(<<>>, <<Msg("error", no_index_text, None)>>, None, store_, files_)
  ELSE
    LET r1 == load_index(None, store_, load_ok)
        c1 == <<Call("load_index", r1.raised, FALSE)>>
    IN
    IF r1.raised # None
    THEN Handled("An error occurred while retrieving the answer", r1.raised[1], c1, <<>>,
                 r1.vectorstore, r1.store, files_)
    ELSE
      LET r2 == query(r1.vectorstore, cited \cap Sources(r1.vectorstore), llm_ok, answer)
          c2 == Append(c1, Call("query", r2.raised, FALSE))
      IN
      IF r2.raised # None
      THEN Handled("An error occurred while retrieving the answer", r2.raised[1], c2, <<>>,
                   r1.vectorstore, r1.store, files_)
      ELSE IF StripStr(r2.value[1].answer) = <<>>
      THEN Finished(c2, <<Msg("warning", "No answer could be generated for this question.", None)>>,
                    r1.vectorstore, r1.store, files_)
      ELSE Finished(c2, <<Msg("answer", "Answer", Some(r2.value[1].answer))>>
                        \o (IF r2.value[1].sources # {}
                            THEN <<Msg("sources", "Sources", Some(r2.value[1].sources))>>
                            ELSE <<>>),
                    r1.vectorstore, r1.store, files_)

\* a script run leaves the pipeline's state and what the page shows
Ran(action, question, r) ==
  /\ vectorstore' = r.vectorstore
  /\ store' = r.store
  /\ files' = r.files
  /\ ui' = [action |-> action, question |-> question, calls |-> r.calls,
            messages |-> r.messages, propagated |-> r.propagated]
  /\ UNCHANGED <<ret, hist>>

ProcessClicked ==
  \E url \in Urls, uploaded_file \in AppUploads :
    \E url_outcome \in UrlOutcomesFor(url),
       file_outcome \in FileOutcomesFor(uploaded_file),
       embed_ok \in BOOLEAN, save_ok \in BOOLEAN :
      Ran("process", <<>>,
          process_clicked(url, uploaded_file, url_outcome, file_outcome,
                          embed_ok, save_ok, store, files))

SendClicked ==
  \E question \in Questions, load_ok \in BOOLEAN, cited \in SUBSET Sources(store),
     llm_ok \in BOOLEAN, answer \in Answers :
    Ran("send", question,
        send_clicked(question, load_ok, cited, llm_ok, answer, store, files))

\* a script run with neither button pressed
Rerun == Ran("rerun", <<>>, Finished(<<>>, <<>>, None, store, files))

NextApp ==
  \/ ProcessClicked
  \/ SendClicked
  \/ Rerun

SpecApp == Init /\ [][NextApp]_vars

----------------------------------------------------------------------------
(* Claims about load_documents (SpecLoad) *)

\* C1: when a load_documents call with an uploaded file ends, by returning
\* or by raising, the temporary file written for it does not exist; for an
\* unsupported extension the call raises the unsupported-format error
C1_TempFileRemoved ==
  (ret.op = "load_documents" /\ ret.file # None) =>
    /\ TempPath(ret.file[1]) \notin files
    /\ ChooseLoader(ret.file[1]) = None => ret.raised = Some(UnsupportedFormat)

\* C6: for a file with a supported extension that parses to at least one
\* Document, load_documents returns a non-empty list; the URL's Documents
\* come first with the source the loader gave them, and every Document of
\* the file follows with the uploaded filename as its source
C6_SourceIsFilename ==
  (/\ ret.op = "load_documents"
   /\ ret.file # None
   /\ ChooseLoader(ret.file[1]) # None
   /\ ~ret.arg[2].raised
   /\ ret.arg[2].texts # <<>>) =>
    /\ ret.raised = None
    /\ LET docs == ret.value[1]
           url_texts == IF ret.url # <<>> THEN ret.arg[1].texts ELSE <<>>
           file_texts == ret.arg[2].texts
       IN  /\ docs # <<>>
           /\ Len(docs) = Len(url_texts) + Len(file_texts)
           /\ \A i \in 1..Len(url_texts) : docs[i] = Document(ret.url, url_texts[i])
           /\ \A j \in 1..Len(file_texts) :
                docs[Len(url_texts) + j] = Document(ret.file[1], file_texts[j])

\* a .docx upload and a URL loaded in one call, one Document from each
C6_Witness ==
  /\ ret.op = "load_documents"
  /\ ret.file = Some(docx_name)
  /\ ret.url = the_url
  /\ ret.raised = None
  /\ Len(ret.value[1]) = 2
  /\ ret.value[1][2].source = docx_name

----------------------------------------------------------------------------
(* Claims about split_documents (SpecSplit) *)

\* C10: every chunk split_documents returns has at most chunk_size
\* characters and carries the source of a document it was given, also when
\* a document holds a run of more than chunk_size characters with no
\* separator in it
C10_ChunkWithinSize ==
  ret.op = "split_documents" =>
    \A i \in 1..Len(ret.value[1]) :
      /\ TextLen(ret.value[1][i].page_content) <= chunk_size
      /\ \E d \in Range(ret.arg) : d.source = ret.value[1][i].source

----------------------------------------------------------------------------
(* Claims about one pipeline instance (Spec) *)

\* the in-memory index changes only in index_documents and load_index
SetOnlyByBuildOrLoad ==
  vectorstore' # vectorstore => ret'.op \in {"index_documents", "load_index"}

\* an in-memory index, once set, is never reset to None
NeverReset == vectorstore # None => vectorstore' # None

\* C2 as claimed: a query with no load_index call before it on the instance
\* raises the uninitialized-index error and leaves both indexes alone
C2_Original ==
  [][(ret'.op = "query" /\ ~hist.load_called) =>
       /\ ret'.raised = Some(NotLoaded)
       /\ UNCHANGED <<vectorstore, store>>]_vars

\* C2 amended: a query raises the uninitialized-index error whenever no
\* load_index has succeeded and no index_documents has built the in-memory
\* index before it on the instance, whatever else was called; a query that
\* fails leaves the in-memory and the persisted index as they were
C2_QueryNeedsIndex ==
  [][ret'.op = "query" =>
       /\ (~hist.loaded /\ ~hist.built) => ret'.raised = Some(NotLoaded)
       /\ ret'.raised # None => UNCHANGED <<vectorstore, store>>]_vars

\* a query refused after load_documents, a failed index_documents and a
\* failed load_index
C2_Witness ==
  /\ ret.op = "query"
  /\ ret.raised = Some(NotLoaded)
  /\ hist.index_called
  /\ hist.load_called
  /\ files # {}

\* C3 as claimed: a query reaches retrieval only after a successful
\* index_documents or a successful load_index; the in-memory index is None
\* at construction, only those two operations set it, nothing resets it
C3_Original ==
  /\ vectorstore = None
  /\ [][/\ (ret'.op = "query" /\ ret'.retrieved) =>
             (hist.index_ok \/ hist.loaded)
        /\ SetOnlyByBuildOrLoad
        /\ NeverReset]_vars

\* C3 amended: a query reaches retrieval only after an index_documents call
\* that built the in-memory index (whether or not the save after it
\* succeeded) or a successful load_index; the in-memory index is None at
\* construction, only those two operations set it, nothing resets it
C3_QueryAfterBuildOrLoad ==
  /\ vectorstore = None
  /\ [][/\ (ret'.op = "query" /\ ret'.retrieved) => (hist.built \/ hist.loaded)
        /\ SetOnlyByBuildOrLoad
        /\ NeverReset]_vars

\* a query that reached retrieval on an index that was built and never loaded
C3_Witness ==
  /\ ret.op = "query"
  /\ ret.retrieved
  /\ hist.built
  /\ ~hist.loaded

C5_MissingIndex ==
  [][(ret'.op = "load_index" /\ hist.indexed = None) =>
       /\ ret'.raised = Some(IndexNotFound)
       /\ ret'.value = None
       /\ store' = None
       /\ vectorstore' = vectorstore
       /\ vectorstore = None =>
            \A a \in Answers : query(vectorstore', {}, TRUE, a).raised = Some(NotLoaded)]_vars

\* a load_index that failed for want of a stored index, on an instance that
\* holds an in-memory index whose save had failed
C5_Witness ==
  /\ ret.op = "load_index"
  /\ ret.raised = Some(IndexNotFound)
  /\ hist.indexed = None
  /\ vectorstore # None

----------------------------------------------------------------------------
(* Claims about the front-end (SpecApp) *)

\* the names of the calls made, in order
Ops(calls) == [i \in 1..Len(calls) |-> calls[i].op]

IsPrefix(a, b) == Len(a) <= Len(b) /\ SubSeq(b, 1, Len(a)) = a

\* C7: a failure raised by a pipeline call in a process or ask action does
\* not leave the action: it is shown as an error message that carries the
\* cause, the call that failed is the last one the action makes, no call is
\* made twice, and no success message follows
C7_ErrorsCaught ==
  ui.action \in {"process", "send"} =>
    /\ ui.propagated = None
    /\ \A i \in 1..Len(ui.calls) :
         ui.calls[i].raised # None =>
           /\ i = Len(ui.calls)
           /\ \E m \in Range(ui.messages) :
                m.kind = "error" /\ m.cause = Some(ui.calls[i].raised[1].msg)
           /\ \A m \in Range(ui.messages) : m.kind \notin {"success", "answer"}
    /\ \A i, j \in 1..Len(ui.calls) : i # j => ui.calls[i].op # ui.calls[j].op

\* a process action whose index_documents failed to save, shown as an error
C7_Witness ==
  /\ ui.action = "process"
  /\ Len(ui.calls) = 3
  /\ ui.calls[3].raised = Some(SaveError)
  /\ ui.messages[Len(ui.messages)].cause = Some(SaveError.msg)

\* C8: a process action calls load_documents, split_documents and
\* index_documents in that order; an empty list from load_documents ends the
\* chain there, an empty list from split_documents ends it there, each with
\* its own error message and with the persisted index left as it was
C8_EmptyStopsChain ==
  [][ui'.action = "process" =>
       LET c == ui'.calls
           last == ui'.messages[Len(ui'.messages)]
       IN  /\ IsPrefix(Ops(c), <<"load_documents", "split_documents", "index_documents">>)
           /\ (Len(c) >= 1 /\ c[1].empty) =>
                /\ Len(c) = 1
                /\ last = Msg("error", no_documents_text, None)
                /\ store' = store
           /\ (Len(c) >= 2 /\ c[2].empty) =>
                /\ Len(c) = 2
                /\ last = Msg("error", no_chunks_text, None)
                /\ store' = store
           /\ no_documents_text # no_chunks_text]_vars

\* a process action stopped after split_documents returned nothing, with an
\* index from an earlier action still stored
C8_Witness ==
  /\ ui.action = "process"
  /\ Len(ui.calls) = 2
  /\ ui.calls[2].empty
  /\ store # None

\* C9: an ask action with a non-blank question checks for a stored index
\* first: without one it shows the missing-index error and calls neither
\* load_index nor query; with one it calls load_index, and query only after
\* load_index succeeded, so no call raises the uninitialized-index error
C9_LoadBeforeQuery ==
  [][(ui'.action = "send" /\ StripStr(ui'.question) # <<>>) =>
       LET c == ui'.calls
       IN  /\ store = None =>
                (c = <<>> /\ ui'.messages = <<Msg("error", no_index_text, None)>>)
           /\ store # None => (Len(c) >= 1 /\ c[1].op = "load_index")
           /\ \A i \in 1..Len(c) :
                /\ c[i].op = "query" =>
                     (i = 2 /\ c[1].op = "load_index" /\ c[1].raised = None)
                /\ c[i].raised # Some(NotLoaded)]_vars

\* an ask action that loaded the index, queried it and showed an answer
C9_Witness ==
  /\ ui.action = "send"
  /\ Ops(ui.calls) = <<"load_index", "query">>
  /\ ui.calls[2].raised = None
  /\ ui.messages[1].kind = "answer"

====
